---------------------------- MODULE Spec2Model ----------------------------
(***************************************************************************)
(* A model of app.py (Project Samarth prototype): the start-up data        *)
(* integration load_and_prepare_data, the model-backend call query_model   *)
(* with its retry loop, clean_generated_code and the /ask handler          *)
(* ask_question.                                                           *)
(*                                                                         *)
(* Representation.                                                         *)
(*  - A text value (a State, a District, a generated code text) is a       *)
(*    sequence of characters, each a one-character string (the grave       *)
(*    accent is written Backtick), so that strip, title, startswith,       *)
(*    endswith and slicing are computed character by character.            *)
(*  - A numeric CSV cell is a record [k, v, h]: k = "num" with v the       *)
(*    integer part and h the number of halves (10.5 is v = 10, h = 1),     *)
(*    k = "nan" for an empty cell (NaN), k = "str" for a non-numeric text. *)
(*    A number that is no small multiple of 0.5 is the float64 itself,     *)
(*    [k, neg, bits], bits the exponents of its binary digits.  Rainfall   *)
(*    is summed in float64, with the rounding of every addition.           *)
(*  - Soil values are multiples of 0.5, whose sums float64 holds exactly;  *)
(*    a mean is the exact fraction [k, n, d] = n / d in lowest terms.      *)
(*  - A DataFrame is a record [ydtype, cols, rows]: the dtype of its Year  *)
(*    column, its column names and its rows in order.  None is the record  *)
(*    [none |-> TRUE].                                                     *)
(***************************************************************************)
EXTENDS Integers, Sequences, FiniteSets, TLC

VARIABLES
    agri_src,        \* the file at AGRI_DATA_PATH: [exists, header, rows]
    rain_src,        \* the file at RAIN_DATA_PATH
    soil_src,        \* the file at SOIL_DATA_PATH
    API_KEY,         \* module constant API_KEY as configured
    pandas_version,  \* <<major, minor>> of the installed pandas
    module_name,     \* __name__ of the module: "__main__" when run as python app.py
    WERKZEUG_RUN_MAIN, \* whether the process is the child that the reloader started
    phase,           \* "start" when the module is imported, "app_run" at line 523,
                     \* "serving" while requests are answered, "failed" after line 525
    master_df,       \* global master_df
    df_columns,      \* global df_columns (the column list that json.dumps renders)
    df_rain_annual,  \* local df_rain_annual as load_and_prepare_data left it
    df_soil_annual,  \* local df_soil_annual as load_and_prepare_data left it
    load_error,      \* which except branch load_and_prepare_data ended in
    reqs             \* per request: its position in ask_question and its locals

vars == <<agri_src, rain_src, soil_src, API_KEY, pandas_version, module_name, WERKZEUG_RUN_MAIN, phase,
          master_df, df_columns,
          df_rain_annual, df_soil_annual, load_error, reqs>>

----------------------------------------------------------------------------
(* Bounds of the model *)

\* Longest rainfall / soil file enumerated freely (rows).
MaxDailyRows == 2

\* Longest crop file enumerated freely (rows).
MaxCropRows == 2

----------------------------------------------------------------------------
(* Characters and text *)

UpperChars ==
    <<"A","B","C","D","E","F","G","H","I","J","K","L","M",
      "N","O","P","Q","R","S","T","U","V","W","X","Y","Z">>

LowerChars ==
    <<"a","b","c","d","e","f","g","h","i","j","k","l","m",
      "n","o","p","q","r","s","t","u","v","w","x","y","z">>

\* Characters that are neither letters nor whitespace, in code-point order.
BeforeUpper == <<"(", ")", "-", "=">>

\* The grave accent (code point 96), the character of a markdown code fence.
Backtick == "<grave>"

BetweenCases == <<"[", "]", "_", Backtick>>

\* All characters of the model in increasing code-point order.
Alphabet == <<"\n", " ">> \o BeforeUpper \o UpperChars \o BetweenCases \o LowerChars

IndexIn(seq, c) == CHOOSE i \in 1..Len(seq) : seq[i] = c

InSeq(seq, c) == \E i \in 1..Len(seq) : seq[i] = c

\* ord(c), up to an order-preserving renumbering.
Ord(c) == IndexIn(Alphabet, c)

\* str.isspace for one character.
IsSpace(c) == c \in {" ", "\n"}

IsUpper(c) == InSeq(UpperChars, c)
IsLower(c) == InSeq(LowerChars, c)
IsCased(c) == IsUpper(c) \/ IsLower(c)

ToUpper(c) == IF IsLower(c) THEN UpperChars[IndexIn(LowerChars, c)] ELSE c
ToLower(c) == IF IsUpper(c) THEN LowerChars[IndexIn(UpperChars, c)] ELSE c

\* str.strip(): leading and trailing whitespace removed.
Strip(s) ==
    LET keep == {i \in 1..Len(s) : ~IsSpace(s[i])}
    IN  IF keep = {} THEN <<>>
        ELSE LET lo == CHOOSE i \in keep : \A j \in keep : i <= j
                 hi == CHOOSE i \in keep : \A j \in keep : j <= i
             IN  SubSeq(s, lo, hi)

\* str.title(): a cased character is upper-cased when the character before it
\* is not cased (or there is none), lower-cased otherwise.
Title(s) ==
    [i \in 1..Len(s) |->
        IF i > 1 /\ IsCased(s[i-1]) THEN ToLower(s[i]) ELSE ToUpper(s[i])]

\* Series.str.strip().str.title() on one value (lines 73 and 75).
NormText(s) == Title(Strip(s))

\* Code-point comparison of two texts, as Python compares str.
RECURSIVE StrLess(_, _)
StrLess(a, b) ==
    IF b = <<>> THEN FALSE
    ELSE IF a = <<>> THEN TRUE
    ELSE IF Ord(Head(a)) # Ord(Head(b)) THEN Ord(Head(a)) < Ord(Head(b))
    ELSE StrLess(Tail(a), Tail(b))

StartsWith(s, p) == Len(s) >= Len(p) /\ SubSeq(s, 1, Len(p)) = p

EndsWith(s, p) == Len(s) >= Len(p) /\ SubSeq(s, Len(s) - Len(p) + 1, Len(s)) = p

----------------------------------------------------------------------------
(* Cells *)

NaN == [k |-> "nan", v |-> 0, h |-> 0]

\* A cell holding a text that is not a number, such as "abc".
NonNumeric == [k |-> "str", v |-> 0, h |-> 0]

\* The number v + h / 2.
NumH(v, h) == [k |-> "num", v |-> v, h |-> h]

Num(v) == NumH(v, 0)

IsNum(c) == c.k = "num"

Halves(c) == c.v * 2 + c.h

FromHalves(t) == NumH(t \div 2, t % 2)

\* pd.to_numeric(..., errors=coerce) on one cell.
to_numeric(c) == IF IsNum(c) THEN c ELSE NaN

\* astype(int) on one finite numeric cell: truncation.
astype_int(c) == NumH(c.v, 0)

RECURSIVE Gcd(_, _)
Gcd(a, b) == IF b = 0 THEN a ELSE Gcd(b, a % b)

MeanNaN == [k |-> "nan", n |-> 0, d |-> 1]

\* The exact quotient n / d, in lowest terms.
Ratio(n, d) ==
    LET g == Gcd(n, d) IN [k |-> "num", n |-> n \div g, d |-> d \div g]

----------------------------------------------------------------------------
(* Dates *)

\* A Date cell is the date written, [y, m, d], with the form f it is written
\* in: ISO is 2010-06-01, US is 06/01/2010.
ISO == "%Y-%m-%d"
US == "%m/%d/%Y"

NaT == [y |-> 0, m |-> 0, d |-> 0, f |-> ""]

IsLeap(y) == (y % 4 = 0 /\ y % 100 # 0) \/ y % 400 = 0

DaysIn(y, m) ==
    IF m = 2 THEN (IF IsLeap(y) THEN 29 ELSE 28)
    ELSE IF m \in {4, 6, 9, 11} THEN 30 ELSE 31

\* One text parsed by itself (dateutil, errors=coerce): NaT unless it is a
\* calendar date.
parse_datetime_string(c) ==
    IF c.m \in 1..12 /\ c.d >= 1 /\ c.d <= DaysIn(c.y, c.m) /\ c.y >= 1 THEN c ELSE NaT

\* guess_datetime_format of pandas 2: the form of a text that parses, none
\* ("") for a text that does not.
guess_datetime_format(c) == IF parse_datetime_string(c) = NaT THEN "" ELSE c.f

\* pd.to_datetime(column, errors=coerce), lines 53 and 63, under the pandas of
\* version <<major, minor>>.  pandas 1 parses
\* every text by itself.  pandas 2 guesses one format from the first value
\* that is not null and parses the column with it, so that a text in another
\* form becomes NaT; when no format can be guessed it parses every text by
\* itself.
to_datetime(cells, version) ==
    LET nonnull == {i \in 1..Len(cells) : cells[i] # NaT}
        first == CHOOSE i \in nonnull : \A j \in nonnull : i <= j
        format == IF version[1] >= 2 /\ nonnull # {} THEN guess_datetime_format(cells[first])
                  ELSE ""
    IN  [i \in 1..Len(cells) |->
            IF format # "" /\ cells[i].f # format THEN NaT
            ELSE parse_datetime_string(cells[i])]

\* Series.dt.year on one value.
dt_year(t) == IF t = NaT THEN NaN ELSE Num(t.y)


----------------------------------------------------------------------------
(* DataFrames *)

None == [none |-> TRUE]

KeyCols == <<"Year", "State", "District">>

RiceCol == "RICE PRODUCTION (1000 tons)"

WheatCol == "WHEAT PRODUCTION (1000 tons)"

RainCol == "Total_Annual_Rainfall_mm"

SoilCol == "Mean_Annual_Soil_Moisture"

Range(seq) == {seq[i] : i \in 1..Len(seq)}

RECURSIVE Flatten(_)
Flatten(ss) == IF ss = <<>> THEN <<>> ELSE Head(ss) \o Flatten(Tail(ss))

\* The dtype read_csv infers for a numeric-looking column of cells; a column
\* without cells (a file of its header only) is read as object.
InferDtype(cells) ==
    IF cells = <<>> THEN "object"
    ELSE IF \E i \in 1..Len(cells) : cells[i].k = "str" THEN "object"
    ELSE IF \E i \in 1..Len(cells) : cells[i].k = "nan" \/ cells[i].h # 0 THEN "float64"
    ELSE "int64"

\* The new name of a column under the rename of line 48.
RenameCol(c) ==
    IF c = "State Name" THEN "State" ELSE IF c = "Dist Name" THEN "District" ELSE c

\* pd.read_csv of the crop file followed by the rename of line 48.
read_agri(file) ==
    LET old(r, c) == CHOOSE x \in DOMAIN r : RenameCol(x) = c
    IN  [ydtype |-> InferDtype([i \in 1..Len(file.rows) |-> file.rows[i]["Year"]]),
         cols   |-> [i \in 1..Len(file.header) |-> RenameCol(file.header[i])],
         rows   |-> [i \in 1..Len(file.rows) |->
                       LET r == file.rows[i]
                       IN  [c \in {RenameCol(x) : x \in DOMAIN r} |-> r[old(r, c)]]]]

\* Line 53 (63): the daily rows with their Date column parsed.
parse_dates(rows, version) ==
    LET parsed == to_datetime([i \in 1..Len(rows) |-> rows[i].Date], version)
    IN  [i \in 1..Len(rows) |-> [rows[i] EXCEPT !.Date = parsed[i]]]

\* Line 55 (65) before the astype, on a row whose Date is parsed: the year of
\* the Date, or the Year cell of the row where the Date is NaT.
FilledYear(r) ==
    LET y == dt_year(r.Date)
    IN  IF y = NaN THEN r.Year ELSE y

\* Whether the astype(int) of line 55 (65) raises: some filled value is NaN or
\* is not a number.
AggYearRaises(rows) == \E i \in 1..Len(rows) : ~IsNum(FilledYear(rows[i]))

\* The Agg_Year of a row whose filled year is a number.
Agg_Year(r) == astype_int(FilledYear(r)).v

\* The groupby key of a daily row: Agg_Year and the State and District as read.
GroupKey(r) == [y |-> Agg_Year(r), State |-> r.State, District |-> r.District]

KeyLess(a, b) ==
    \/ a.y < b.y
    \/ a.y = b.y /\ StrLess(a.State, b.State)
    \/ a.y = b.y /\ a.State = b.State /\ StrLess(a.District, b.District)

RECURSIVE SortKeys(_)
SortKeys(S) ==
    IF S = {} THEN <<>>
    ELSE LET m == CHOOSE k \in S : \A o \in S \ {k} : KeyLess(k, o)
         IN  <<m>> \o SortKeys(S \ {m})

\* The groups of groupby([Agg_Year, State, District]): the distinct keys, sorted
\* (sort=True is the default).
GroupKeys(rows) == SortKeys({GroupKey(rows[i]) : i \in 1..Len(rows)})

\* The measure cells of the rows of one group, in row order.
GroupCells(rows, key, col) ==
    LET sel == SelectSeq(rows, LAMBDA r : GroupKey(r) = key)
    IN  [i \in 1..Len(sel) |-> sel[i][col]]

RECURSIVE SumHalves(_)
SumHalves(cells) ==
    IF cells = <<>> THEN 0
    ELSE (IF IsNum(Head(cells)) THEN Halves(Head(cells)) ELSE 0) + SumHalves(Tail(cells))

CountNum(cells) == Cardinality({i \in 1..Len(cells) : IsNum(cells[i])})

\* float64 arithmetic.  The magnitude of a float64 is written as the set of
\* the exponents of its binary digits that are 1 (10.5 = 2^3 + 2^1 + 2^-1 is
\* {3, 1, -1}, 0.0 is {}), a float64 as [neg, mag].  Sums and differences are
\* computed exactly on the digits and then rounded to 53 significant digits,
\* to the nearest, a tie to the even neighbour, as IEEE 754 does; overflow,
\* subnormal numbers and the sign of zero stay outside.
Zero == [neg |-> FALSE, mag |-> {}]

MaxOf(S) == CHOOSE x \in S : \A y \in S : y <= x

\* S + 2^b
RECURSIVE AddBit(_, _)
AddBit(S, b) == IF b \in S THEN AddBit(S \ {b}, b + 1) ELSE S \cup {b}

\* S - 2^b, for S >= 2^b
SubBit(S, b) ==
    IF b \in S THEN S \ {b}
    ELSE LET c == CHOOSE x \in S : x > b /\ \A y \in S : y > b => x <= y
         IN  (S \ {c}) \cup (b..(c - 1))

RECURSIVE MagAdd(_, _)
MagAdd(A, B) == IF B = {} THEN A ELSE LET b == MaxOf(B) IN MagAdd(AddBit(A, b), B \ {b})

\* A - B, for A >= B
RECURSIVE MagSub(_, _)
MagSub(A, B) == IF B = {} THEN A ELSE LET b == MaxOf(B) IN MagSub(SubBit(A, b), B \ {b})

MagLess(A, B) == LET D == (A \ B) \cup (B \ A) IN D # {} /\ MaxOf(D) \in B

\* The float64 nearest to the exact magnitude S.
RoundF64(S) ==
    IF S = {} THEN {}
    ELSE LET cut == MaxOf(S) - 52
             kept == {x \in S : x >= cut}
             rest == S \ kept
             up == (cut - 1) \in rest /\ (rest # {cut - 1} \/ cut \in kept)
         IN  IF up THEN AddBit(kept, cut) ELSE kept

\* a + b and a - b in float64.
FAdd(a, b) ==
    IF a.neg = b.neg THEN [neg |-> a.neg /\ (a.mag # {} \/ b.mag # {}),
                           mag |-> RoundF64(MagAdd(a.mag, b.mag))]
    ELSE IF a.mag = b.mag THEN Zero
    ELSE IF MagLess(a.mag, b.mag) THEN [neg |-> b.neg, mag |-> RoundF64(MagSub(b.mag, a.mag))]
    ELSE [neg |-> a.neg, mag |-> RoundF64(MagSub(a.mag, b.mag))]

FSub(a, b) == FAdd(a, [b EXCEPT !.neg = ~@ /\ b.mag # {}])

\* A numeric cell that is no multiple of 0.5 below 2^30: the float64 itself.
F64Cell(neg, bits) == [k |-> "num", neg |-> neg, bits |-> bits]

\* The binary digits of the natural number n, the lowest at exponent e.
BitsOf(n, e) == {e + i : i \in {j \in 0..30 : (n \div (2 ^ j)) % 2 = 1}}

RECURSIVE HalvesOf(_)
HalvesOf(S) == IF S = {} THEN 0 ELSE LET x == MaxOf(S) IN 2 ^ (x + 1) + HalvesOf(S \ {x})

\* The float64 of a numeric cell, and the cell of a float64.
ToF64(c) ==
    IF "bits" \in DOMAIN c THEN [neg |-> c.neg, mag |-> c.bits]
    ELSE [neg |-> FALSE, mag |-> BitsOf(Halves(c), -1)]

FromF64(f) ==
    IF ~f.neg /\ f.mag \subseteq (-1)..28 THEN FromHalves(HalvesOf(f.mag))
    ELSE F64Cell(f.neg, f.mag)

\* The loop of group_sum (pandas/_libs/groupby.pyx) over the cells of one group
\* in row order: missing values are skipped, the others are added with Kahan
\* compensation: y = val - compensation, t = sumx + y,
\* compensation = t - sumx - y, sumx = t.
RECURSIVE group_sum(_, _, _)
group_sum(cells, sumx, compensation) ==
    IF cells = <<>> THEN sumx
    ELSE IF ~IsNum(Head(cells)) THEN group_sum(Tail(cells), sumx, compensation)
    ELSE LET y == FSub(ToF64(Head(cells)), compensation)
             t == FAdd(sumx, y)
         IN  group_sum(Tail(cells), t, FSub(FSub(t, sumx), y))

\* GroupBy.sum(): the float64 sum of the values of the group in row order; a
\* group without a value sums to 0.
groupby_sum(cells) == FromF64(group_sum(cells, Zero, Zero))

\* GroupBy.mean(): missing values are skipped; a group without a value is NaN.
groupby_mean(cells) ==
    IF CountNum(cells) = 0 THEN MeanNaN ELSE Ratio(SumHalves(cells), 2 * CountNum(cells))

AnnualRow(key, col, val) ==
    [c \in {"Year", "State", "District", col} |->
        IF c = "Year" THEN Num(key.y)
        ELSE IF c = "State" THEN key.State
        ELSE IF c = "District" THEN key.District
        ELSE val]

\* Lines 57-58: the annual rainfall table of the daily rows.
rain_annual(rows) ==
    LET keys == GroupKeys(rows)
    IN  [ydtype |-> "int64",
         cols   |-> KeyCols \o <<RainCol>>,
         rows   |-> [i \in 1..Len(keys) |->
                       AnnualRow(keys[i], RainCol,
                                 groupby_sum(GroupCells(rows, keys[i], "Avg_rainfall")))]]

\* Lines 67-68: the annual soil-moisture table of the daily rows.
soil_annual(rows) ==
    LET keys == GroupKeys(rows)
    IN  [ydtype |-> "int64",
         cols   |-> KeyCols \o <<SoilCol>>,
         rows   |-> [i \in 1..Len(keys) |->
                       AnnualRow(keys[i], SoilCol,
                                 groupby_mean(GroupCells(rows, keys[i], "Avg_smlvl_at15cm")))]]

\* Lines 70-82 on one table.  State and District are stripped and title-cased.
\* Year: to_numeric, dropna, astype(int), and the assignment back aligns on the
\* index, so the column is int64 only when no value was dropped and float64
\* (with NaN in the dropped places) otherwise; then the rows with a NaN Year
\* are dropped.
standardize_keys(df) ==
    LET kept == SelectSeq(df.rows, LAMBDA r : IsNum(to_numeric(r["Year"])))
    IN  [df EXCEPT
            !.ydtype = IF Len(kept) < Len(df.rows) THEN "float64" ELSE "int64",
            !.rows = [i \in 1..Len(kept) |->
                        [kept[i] EXCEPT !["State"] = NormText(@),
                                        !["District"] = NormText(@),
                                        !["Year"] = astype_int(to_numeric(@))]]]

SameKey(l, r) ==
    /\ l["Year"] = r["Year"]
    /\ l["State"] = r["State"]
    /\ l["District"] = r["District"]

\* The columns of a table that are no key of the merge on KeyCols.
ValueCols(right) == SelectSeq(right.cols, LAMBDA c : c \notin Range(KeyCols))

NullOf(c) == IF c = SoilCol THEN MeanNaN ELSE NaN

\* pd.merge(left, right, on=[Year, State, District], how=left): the left rows in
\* order, each once per matching right row (in the right table's order), or
\* once with nulls when nothing matches.  Before pandas 2.2 a left table
\* without rows gives up its key columns and the keys are those of the right
\* table (the length-0 corner of _get_merge_keys): the result has the other
\* columns of the left table, then all columns of the right table, and its
\* Year has the dtype of the right table.
merge_left(left, right, version) ==
    LET add == Range(ValueCols(right))
        before_2_2 == version[1] < 2 \/ (version[1] = 2 /\ version[2] < 2)
        joined(l) ==
            LET m == SelectSeq(right.rows, LAMBDA r : SameKey(l, r))
            IN  IF m = <<>> THEN << l @@ [c \in add |-> NullOf(c)] >>
                ELSE [j \in 1..Len(m) |-> l @@ [c \in add |-> m[j][c]]]
    IN  IF left.rows = <<>> /\ before_2_2
        THEN [ydtype |-> right.ydtype,
              cols   |-> ValueCols(left) \o right.cols,
              rows   |-> <<>>]
        ELSE [ydtype |-> IF left.ydtype = right.ydtype THEN left.ydtype ELSE "float64",
              cols   |-> left.cols \o ValueCols(right),
              rows   |-> Flatten([i \in 1..Len(left.rows) |-> joined(left.rows[i])])]

\* The columns that the sample print of line 94 selects.
SampleCols == KeyCols \o <<RiceCol, RainCol, SoilCol>>

\* load_and_prepare_data as a function of the three files and of the globals
\* before the call: the globals after it, the two annual tables as it left
\* them (None when it did not get to them) and the except branch it took.
load_result(agri, rain, soil, old_columns, version) ==
    LET fail(kind, ra, sa, cols) ==
            [master |-> None, columns |-> cols, rain_annual |-> ra,
             soil_annual |-> sa, error |-> kind]
    IN  IF ~agri.exists THEN fail("FileNotFoundError", None, None, old_columns)
        ELSE IF ~rain.exists THEN fail("FileNotFoundError", None, None, old_columns)
        ELSE LET df_rain == parse_dates(rain.rows, version)
        IN  IF AggYearRaises(df_rain) THEN fail("Exception", None, None, old_columns)
        ELSE LET ra == rain_annual(df_rain)
        IN  IF ~soil.exists THEN fail("FileNotFoundError", ra, None, old_columns)
        ELSE LET df_soil == parse_dates(soil.rows, version)
        IN  IF AggYearRaises(df_soil) THEN fail("Exception", ra, None, old_columns)
        ELSE LET sa == soil_annual(df_soil)
                 n_agri == standardize_keys(read_agri(agri))
                 n_rain == standardize_keys(ra)
                 n_soil == standardize_keys(sa)
                 df_merged == merge_left(n_agri, n_rain, version)
                 merged == merge_left(df_merged, n_soil, version)
        IN  IF Range(SampleCols) \subseteq Range(merged.cols)
            THEN [master |-> merged, columns |-> merged.cols, rain_annual |-> n_rain,
                  soil_annual |-> n_soil, error |-> "none"]
            ELSE fail("Exception", n_rain, n_soil, merged.cols)


----------------------------------------------------------------------------
(* The source files enumerated *)

Goa == <<"G","o","a">>
goa_sp == <<"g","o","a"," ">>
Pune == <<"P","u","n","e">>
pune_sp == <<"p","u","n","e"," ">>
sp_Maharashtra == <<" ","M","a","h","a","r","a","s","h","t","r","a">>
Maharashtra == <<"M","a","h","a","r","a","s","h","t","r","a">>

\* The places of the enumerated rows: one place in three spellings.
Places ==
    { [State |-> Goa, District |-> Pune],
      [State |-> goa_sp, District |-> Pune],
      [State |-> Goa, District |-> pune_sp] }

Date(y, m, d) == [y |-> y, m |-> m, d |-> d, f |-> ISO]

DateUS(m, d, y) == [y |-> y, m |-> m, d |-> d, f |-> US]

\* A date of 2010, and a text that is no calendar date (30 February).
Dates == { Date(2010, 6, 1), Date(2011, 2, 30) }

DailyYears == { Num(2011), NaN }

Measures == { NumH(10, 1), Num(20), NaN }

\* The float64 that 0.1 is read as (0x3FB999999999999A).
Tenth == F64Cell(FALSE, {-4 * k : k \in 1..13} \cup {-4 * k - 1 : k \in 1..13} \cup {-55})

DailyRow(col, date, year, place, val) ==
    [c \in {"Date", "Year", "State", "District", col} |->
        IF c = "Date" THEN date
        ELSE IF c = "Year" THEN year
        ELSE IF c = "State" THEN place.State
        ELSE IF c = "District" THEN place.District
        ELSE val]

DailyRows(col) ==
    { DailyRow(col, dt, y, p, v) : dt \in Dates, y \in DailyYears, p \in Places, v \in Measures }

SeqsUpTo(S, n) == UNION { [1..k -> S] : k \in 0..n }

Missing == [exists |-> FALSE, header |-> <<>>, rows |-> <<>>]

DailyFile(col, rows) ==
    [exists |-> TRUE, header |-> <<"Date", "Year", "State", "District", col>>, rows |-> rows]

\* Every daily file of at most MaxDailyRows enumerated rows.
DailyWide(col) == { DailyFile(col, rows) : rows \in SeqsUpTo(DailyRows(col), MaxDailyRows) }

\* The example of the specification: three (two) readings of one place of 2010,
\* written "pune " and " Maharashtra".
ExampleRows(col, vals) ==
    [i \in 1..Len(vals) |->
        DailyRow(col, Date(2010, 5 + i, 1), Num(2010),
                 [State |-> sp_Maharashtra, District |-> pune_sp], vals[i])]

ExampleRain == DailyFile("Avg_rainfall", ExampleRows("Avg_rainfall", <<NumH(10, 1), Num(20), NumH(5, 1)>>))

\* Rainfall files of three readings of one place of 2010, 0.1, 0.1 and 1.0 in
\* each order.
SameGroupRain ==
    { DailyFile("Avg_rainfall", ExampleRows("Avg_rainfall", vals)) :
        vals \in { <<Tenth, Tenth, Num(1)>>, <<Tenth, Num(1), Tenth>>, <<Num(1), Tenth, Tenth>> } }

\* Rainfall files of two readings of one place, in both orders: one dated
\* 2010-06-01 with an empty Year, one dated 06/01/2010 with the Year 2010.
MixedFormRain ==
    LET place == [State |-> Maharashtra, District |-> Pune]
        a == DailyRow("Avg_rainfall", Date(2010, 6, 1), NaN, place, Num(20))
        b == DailyRow("Avg_rainfall", DateUS(6, 1, 2010), Num(2010), place, NumH(10, 1))
    IN  { DailyFile("Avg_rainfall", <<a, b>>), DailyFile("Avg_rainfall", <<b, a>>) }

ExampleSoil == DailyFile("Avg_smlvl_at15cm", ExampleRows("Avg_smlvl_at15cm", <<Num(30), Num(40)>>))

\* A few daily files: none, an empty one, one reading of 2010.
DailyNarrow(col) ==
    { Missing,
      DailyFile(col, <<>>),
      DailyFile(col, << DailyRow(col, Date(2010, 6, 1), Num(2010),
                                 [State |-> Goa, District |-> Pune], Num(20)) >>) }

CropYears == { Num(2010), Num(2011), NumH(2010, 1), NonNumeric }

CropRow(year, place, metric, val) ==
    [c \in {"Year", "State Name", "Dist Name", metric} |->
        IF c = "Year" THEN year
        ELSE IF c = "State Name" THEN place.State
        ELSE IF c = "Dist Name" THEN place.District
        ELSE val]

CropFile(metric, rows) ==
    [exists |-> TRUE, header |-> <<"Year", "State Name", "Dist Name", metric>>, rows |-> rows]

\* Every crop file of at most MaxCropRows enumerated rows, with a rice column
\* or with a wheat column only.
CropWide ==
    UNION { { CropFile(metric, rows) :
                rows \in SeqsUpTo({ CropRow(y, p, metric, Num(7)) : y \in CropYears, p \in Places },
                                  MaxCropRows) } :
            metric \in {RiceCol, WheatCol} }

\* A few crop files: none, and one and two rows with a rice column.
CropNarrow ==
    { Missing,
      CropFile(RiceCol, << CropRow(Num(2010), [State |-> goa_sp, District |-> Pune], RiceCol, Num(7)) >>),
      CropFile(RiceCol, << CropRow(Num(2010), [State |-> Goa, District |-> Pune], RiceCol, Num(7)),
                           CropRow(Num(2011), [State |-> Goa, District |-> Pune], RiceCol, Num(9)) >>) }

ExampleCrop ==
    CropFile(RiceCol, << CropRow(Num(2010), [State |-> Maharashtra, District |-> Pune], RiceCol, Num(7)) >>)


----------------------------------------------------------------------------
(* Start-up *)

\* The API_KEY of line 19 as shipped.
PLACEHOLDER_KEY == "PASTE_YOUR_GEMINI_API_KEY_HERE"

\* The values API_KEY is configured with: the placeholder, nothing, a key.
ApiKeys == { PLACEHOLDER_KEY, "", "a-key" }

\* Most requests that arrive in one run.
MaxRequests == 2

Requests == 1..MaxRequests

Null == <<>>

Some(x) == <<x>>

\* No query_model call yet.
NoCall ==
    [kind |-> "none", attempt |-> 0, base_delay |-> 0, waits |-> <<>>,
     sleeping |-> FALSE, last |-> "none", status |-> 0, hist |-> <<>>]

\* A request that has not arrived yet.
Idle ==
    [pc |-> "idle", body |-> "none", call |-> NoCall, http |-> 0, calls |-> <<>>,
     cleaned_code |-> Null, df |-> None, data_result |-> Null, exec_error |-> Null,
     response |-> Null]

\* The module as imported: master_df = None and df_columns = "[]" (lines 25-26),
\* in a process that no reloader started.
InitGlobals ==
    /\ phase = "start"
    /\ WERKZEUG_RUN_MAIN = FALSE
    /\ master_df = None
    /\ df_columns = <<>>
    /\ df_rain_annual = None
    /\ df_soil_annual = None
    /\ load_error = "none"
    /\ reqs = [r \in Requests |-> Idle]

\* Start-up over the enumerated files: one source enumerated freely beside a
\* few files of the other two, and beside the crop and soil files of the
\* example of the specification its rainfall file and the rainfall files whose
\* rows are of one group or of two forms of Date.
InitLoad ==
    /\ InitGlobals
    /\ module_name = "__main__"
    /\ pandas_version \in {<<1, 5>>, <<2, 1>>, <<2, 2>>}
    /\ API_KEY = PLACEHOLDER_KEY
    /\ \/ /\ rain_src \in DailyWide("Avg_rainfall")
          /\ soil_src \in DailyNarrow("Avg_smlvl_at15cm")
          /\ agri_src \in CropNarrow
       \/ /\ rain_src \in DailyNarrow("Avg_rainfall")
          /\ soil_src \in DailyWide("Avg_smlvl_at15cm")
          /\ agri_src \in CropNarrow
       \/ /\ rain_src \in DailyNarrow("Avg_rainfall")
          /\ soil_src \in DailyNarrow("Avg_smlvl_at15cm")
          /\ agri_src \in CropWide
       \/ /\ rain_src \in {ExampleRain} \cup SameGroupRain \cup MixedFormRain
          /\ soil_src = ExampleSoil
          /\ agri_src = ExampleCrop

\* load_and_prepare_data() (lines 32-105): what it leaves in the globals.
load_and_prepare_data ==
    LET res == load_result(agri_src, rain_src, soil_src, df_columns, pandas_version)
    IN  /\ master_df' = res.master
        /\ df_columns' = res.columns
        /\ df_rain_annual' = res.rain_annual
        /\ df_soil_annual' = res.soil_annual
        /\ load_error' = res.error

\* The main block up to the call of app.run (lines 515-525), in a process
\* that runs the module as a program: the load, then the test of line 519,
\* which goes on to app.run only when the load built the master table and
\* otherwise ends the program with no server started.
main ==
    /\ module_name = "__main__"
    /\ phase = "start"
    /\ load_and_prepare_data
    /\ phase' = IF master_df' # None THEN "app_run" ELSE "failed"
    /\ UNCHANGED <<agri_src, rain_src, soil_src, API_KEY, pandas_version, module_name, WERKZEUG_RUN_MAIN, reqs>>

\* app.run(debug=True, port=5000) of line 523.  With debug the reloader is on:
\* the first process starts a child that runs the module again from its
\* import (the globals of the child are those of lines 25-26, and its main
\* block runs the load anew); in the child app.run serves the requests.
app_run ==
    /\ phase = "app_run"
    /\ IF WERKZEUG_RUN_MAIN
       THEN /\ phase' = "serving"
            /\ UNCHANGED <<WERKZEUG_RUN_MAIN, master_df, df_columns, df_rain_annual,
                           df_soil_annual, load_error>>
       ELSE /\ phase' = "start"
            /\ WERKZEUG_RUN_MAIN' = TRUE
            /\ master_df' = None
            /\ df_columns' = <<>>
            /\ df_rain_annual' = None
            /\ df_soil_annual' = None
            /\ load_error' = "none"
    /\ UNCHANGED <<agri_src, rain_src, soil_src, API_KEY, pandas_version, module_name, reqs>>

\* The module imported by a server of its own (flask run, a WSGI server): the
\* test of line 515 is false, no load runs, and the route of line 183 is
\* served with the globals of lines 25-26.
served_by_import ==
    /\ module_name # "__main__"
    /\ phase = "start"
    /\ phase' = "serving"
    /\ UNCHANGED <<agri_src, rain_src, soil_src, API_KEY, pandas_version, module_name, WERKZEUG_RUN_MAIN,
                   master_df, df_columns, df_rain_annual, df_soil_annual, load_error, reqs>>

\* load_and_prepare_data has run in this process.
Loaded == module_name = "__main__" /\ phase \in {"app_run", "serving", "failed"}

NextLoad == main \/ app_run


SpecLoad == InitLoad /\ [][NextLoad]_vars

----------------------------------------------------------------------------
(* Generated code and its execution *)

Fence == <<Backtick, Backtick, Backtick>>

FencePython == Fence \o <<"p","y","t","h","o","n">>

\* result=len(df)
Q_count == <<"r","e","s","u","l","t","=","l","e","n","(","d","f",")">>

\* df.drop(df.index,inplace=True): empties its df and binds no result
Q_wipe ==
    <<"d","f",".","d","r","o","p","(","d","f",".","i","n","d","e","x",",",
      "i","n","p","l","a","c","e","=","T","r","u","e",")">>

\* result=df[0]: raises KeyError, whose message is "0"
Q_keyerror == <<"r","e","s","u","l","t","=","d","f","[","0","]">>

\* assert 0: raises AssertionError, whose message is empty
Q_assert == <<"a","s","s","e","r","t"," ","0">>

\* The texts the backend generates for a question.
GeneratedTexts ==
    { Q_count,
      FencePython \o <<"\n">> \o Q_count \o <<"\n">> \o Fence,
      Fence \o <<"\n">> \o Q_count \o <<"\n">> \o Fence,
      Q_wipe,
      Q_keyerror,
      Q_assert }

\* The text of an answer or of an explanation.
AnswerText == <<"a","n","s","w","e","r">>

\* clean_generated_code (lines 171-180).
clean_generated_code(raw_code) ==
    LET a == IF StartsWith(raw_code, FencePython)
             THEN SubSeq(raw_code, 10, Len(raw_code)) ELSE raw_code
        b == IF EndsWith(a, Fence) THEN SubSeq(a, 1, Len(a) - 3) ELSE a
    IN  Strip(b)

\* exec(cleaned_code, {}, local_context) on the programs above (lines 253-256,
\* 270-272): the df of the context afterwards, the result bound (if any) and
\* str(e) of the exception raised (if any).  Any other text is no Python.
exec_code(code, df) ==
    IF code = Q_count
    THEN [df |-> df, result |-> Some([t |-> "int", v |-> Len(df.rows)]), raised |-> Null]
    ELSE IF code = Q_wipe
    THEN [df |-> [df EXCEPT !.rows = <<>>], result |-> Null, raised |-> Null]
    ELSE IF code = Q_keyerror
    THEN [df |-> df, result |-> Null, raised |-> Some("0")]
    ELSE IF code = Q_assert
    THEN [df |-> df, result |-> Null, raised |-> Some("")]
    ELSE [df |-> df, result |-> Null, raised |-> Some("invalid syntax (<string>, line 1)")]

\* Lines 256-266: the result made serializable.  A result that was not bound
\* is None, which falls to the str() fallback.
normalize_result(result) ==
    IF result = Null THEN [t |-> "str", v |-> 0, s |-> "None"]
    ELSE [t |-> result[1].t, v |-> result[1].v, s |-> ""]

----------------------------------------------------------------------------
(* query_model *)

\* retries (line 125)
retries == 3

\* base_delay at the start of a call (line 126)
initial_base_delay == 1

\* The statuses of line 133.
RetryStatuses == {500, 502, 503, 504}

\* The statuses the backend answers with, and what else an attempt may end in:
\* a transport exception of requests.post, a 200 whose body is no JSON, a 200
\* whose JSON has no candidates, a 200 whose first part has no text (a
\* KeyError), a 200 with text.  What response.json() raises on a body that is
\* no JSON depends on the installed requests: its JSONDecodeError is a
\* RequestException from version 2.27 on ("not_json") and a plain ValueError
\* before ("not_json_legacy").
Statuses == {200, 400, 403, 404, 500, 503}

\* How an attempt can end without text: a bad status, or one of the shapes.
\* The code-generation call is answered in every way; the second call of a
\* request in fewer ways: a client status, a server status, a transport
\* exception, a JSON without candidates.
FailureShapes == {"transport", "not_json", "not_json_legacy", "no_candidates", "no_text"}

Failures(kind) ==
    IF kind = "codegen"
    THEN [statuses |-> Statuses \ {200}, shapes |-> FailureShapes]
    ELSE [statuses |-> {404, 503}, shapes |-> {"transport", "no_candidates"}]

Outcomes(kind) ==
    { [status |-> c, shape |-> "n/a", text |-> <<>>] : c \in Failures(kind).statuses }
    \cup { [status |-> IF sh = "transport" THEN 0 ELSE 200, shape |-> sh, text |-> <<>>] :
             sh \in Failures(kind).shapes }
    \cup { [status |-> 200, shape |-> "text", text |-> t] :
             t \in IF kind = "codegen" THEN GeneratedTexts ELSE {AnswerText} }

AllOutcomes == Outcomes("codegen") \cup Outcomes("synthesis")

\* The error texts query_model returns (lines 168, 162, 154, 165); the last
\* three are followed in the code by the text of the exception or of the error
\* field of the JSON, which the model leaves out.
ERR_UNAVAILABLE == "Error: Service unavailable after 3 attempts."
ERR_CONNECT == "Error: Could not connect to model API after 3 attempts. "
ERR_FORMAT == "Error: Unexpected API response format: "
ERR_UNEXPECTED == "An unexpected error occurred: "

NewCall(kind) ==
    [kind |-> kind, attempt |-> 0, base_delay |-> initial_base_delay,
     waits |-> <<>>, sleeping |-> FALSE, last |-> "none", status |-> 0, hist |-> <<>>]

\* How an attempt ends (lines 129-165), as the branch of the loop body taken:
\*   "retry_status"  line 133: sleep, double, continue
\*   "request_exc"   line 156: a RequestException, raised by requests.post, by
\*                   raise_for_status (HTTPError is a RequestException) or
\*                   by response.json() of requests 2.27 and later
\*   "format"        line 152: the JSON lacks candidates, content or parts
\*   "unexpected"    line 163: any other exception
\*   "text"          line 151
Branch(o) ==
    IF o.shape = "transport" THEN "request_exc"
    ELSE IF o.status \in RetryStatuses THEN "retry_status"
    ELSE IF o.status >= 400 THEN "request_exc"
    ELSE IF o.shape = "not_json" THEN "request_exc"
    ELSE IF o.shape = "not_json_legacy" THEN "unexpected"
    ELSE IF o.shape = "no_candidates" THEN "format"
    ELSE IF o.shape = "no_text" THEN "unexpected"
    ELSE "text"

\* A loop that treats an exception on the last attempt like one on an earlier
\* attempt.
loop_body_retries_past_last(call, o) ==
    LET b == Branch(o)
        ended == [call EXCEPT !.attempt = @ + 1, !.last = b, !.status = o.status,
                              !.hist = Append(@, b)]
        slept == [ended EXCEPT !.sleeping = TRUE, !.waits = Append(@, call.base_delay)]
    IN  IF b = "retry_status"
        THEN [call |-> slept, returned |-> FALSE, text |-> Null, err |-> Null]
        ELSE IF b = "request_exc" /\ call.attempt < retries
        THEN [call |-> slept, returned |-> FALSE, text |-> Null, err |-> Null]
        ELSE IF b = "request_exc"
        THEN [call |-> ended, returned |-> TRUE, text |-> Null, err |-> Some(ERR_CONNECT)]
        ELSE IF b = "format"
        THEN [call |-> ended, returned |-> TRUE, text |-> Null, err |-> Some(ERR_FORMAT)]
        ELSE IF b = "unexpected"
        THEN [call |-> ended, returned |-> TRUE, text |-> Null, err |-> Some(ERR_UNEXPECTED)]
        ELSE [call |-> ended, returned |-> TRUE, text |-> Some(o.text), err |-> Null]

\* One pass of the loop of query_model (lines 128-165) on attempt outcome o, up
\* to the sleep of line 135 or 159 where the pass has one: the locals then,
\* whether the call returned, and what it returned.  The pass sleeps after
\* every server status of line 133, the last attempt included, and after an
\* exception on an attempt that is not the last (line 158).
loop_body(call, o) ==
    LET b == Branch(o)
        ended == [call EXCEPT !.attempt = @ + 1, !.last = b, !.status = o.status,
                              !.hist = Append(@, b)]
        slept == [ended EXCEPT !.sleeping = TRUE, !.waits = Append(@, call.base_delay)]
    IN  IF b = "retry_status"
        THEN [call |-> slept, returned |-> FALSE, text |-> Null, err |-> Null]
        ELSE IF b = "request_exc" /\ call.attempt < retries - 1
        THEN [call |-> slept, returned |-> FALSE, text |-> Null, err |-> Null]
        ELSE IF b = "request_exc"
        THEN [call |-> ended, returned |-> TRUE, text |-> Null, err |-> Some(ERR_CONNECT)]
        ELSE IF b = "format"
        THEN [call |-> ended, returned |-> TRUE, text |-> Null, err |-> Some(ERR_FORMAT)]
        ELSE IF b = "unexpected"
        THEN [call |-> ended, returned |-> TRUE, text |-> Null, err |-> Some(ERR_UNEXPECTED)]
        ELSE [call |-> ended, returned |-> TRUE, text |-> Some(o.text), err |-> Null]

\* A sleep after which the delay is doubled only on the server-status path.
after_sleep_fixed_delay_on_exception(call) ==
    LET woken == [call EXCEPT !.sleeping = FALSE, !.base_delay = IF call.last = "retry_status" THEN @ * 2 ELSE @]
        last_pass == woken.attempt = retries
    IN  [call |-> woken, returned |-> last_pass, text |-> Null,
         err |-> IF last_pass THEN Some(ERR_UNAVAILABLE) ELSE Null]

\* The rest of a pass that sleeps (lines 136-137, 160): the sleep is over, the
\* delay is doubled and the loop goes on; when the pass was the last, the
\* loop is over and line 168 returns.
after_sleep(call) ==
    LET woken == [call EXCEPT !.sleeping = FALSE, !.base_delay = @ * 2]
        last_pass == woken.attempt = retries
    IN  [call |-> woken, returned |-> last_pass, text |-> Null,
         err |-> IF last_pass THEN Some(ERR_UNAVAILABLE) ELSE Null]

----------------------------------------------------------------------------
(* ask_question *)

\* The error texts of lines 192, 195, 201 and 206.
ERR_CONFIG ==
    "Server-side configuration error: The Gemini API key is not set. Please add your API key to the 'API_KEY' variable in app.py."
ERR_DATA == "Data is not loaded. Please check server logs for file path errors."
ERR_NO_JSON == "Invalid request: No JSON body or incorrect Content-Type."
ERR_NO_QUESTION == "Invalid request: 'question' field is missing from JSON body."

\* The HTTP status of each rejection: lines 192, 195, 201 and 206, 235 and 306.
STATUS_CONFIG == 500
STATUS_DATA == 500
STATUS_BAD_REQUEST == 400
STATUS_BACKEND == 500

\* The JSON body of a request (Content-Type application/json): null, {}, an
\* object without a question, one whose question is empty, one with a question.
\* A request that is not JSON is left out: what get_json does with it depends
\* on the Flask version.
Bodies == {"json_null", "empty_object", "no_question", "empty_question", "question"}

\* jsonify({"error": message}), status
ErrorResponse(status, message) == [status |-> status, body |-> [error |-> Some(message)]]

\* Lines 309-316.
FullResponse(final_answer, data_result, cleaned_code, exec_error) ==
    [status |-> 200,
     body |-> [answer |-> Some(final_answer), data_result |-> data_result,
               generated_code |-> cleaned_code, error |-> exec_error]]

Respond(q, response) == [q EXCEPT !.pc = "done", !.response = Some(response)]

\* Preconditions without the check of the API key.
preconditions_without_key(body) ==
    IF master_df = None THEN Some(ErrorResponse(500, ERR_DATA))
    ELSE IF body \in {"json_null", "empty_object"} THEN Some(ErrorResponse(400, ERR_NO_JSON))
    ELSE IF body \in {"no_question", "empty_question"}
    THEN Some(ErrorResponse(400, ERR_NO_QUESTION))
    ELSE Null

\* Lines 190-206: the response that rejects the request, or Null.
preconditions(body) ==
    IF API_KEY = PLACEHOLDER_KEY \/ API_KEY = ""
    THEN Some(ErrorResponse(STATUS_CONFIG, ERR_CONFIG))
    ELSE IF master_df = None THEN Some(ErrorResponse(STATUS_DATA, ERR_DATA))
    ELSE IF body \in {"json_null", "empty_object"}
    THEN Some(ErrorResponse(STATUS_BAD_REQUEST, ERR_NO_JSON))
    ELSE IF body \in {"no_question", "empty_question"}
    THEN Some(ErrorResponse(STATUS_BAD_REQUEST, ERR_NO_QUESTION))
    ELSE Null

\* ask_question from its entry to the first query_model call (lines 190-233).
ask_question(r, body) ==
    /\ phase = "serving"
    /\ reqs[r].pc = "idle"
    /\ LET rejected == preconditions(body)
       IN  reqs' = [reqs EXCEPT ![r] =
                IF rejected # Null THEN Respond([@ EXCEPT !.body = body], rejected[1])
                ELSE [@ EXCEPT !.pc = "codegen", !.body = body,
                               !.call = NewCall("codegen"),
                               !.calls = Append(@, "codegen")]]
    /\ UNCHANGED <<agri_src, rain_src, soil_src, API_KEY, pandas_version, module_name, WERKZEUG_RUN_MAIN,
                   phase, master_df, df_columns,
                   df_rain_annual, df_soil_annual, load_error>>

\* A handler that goes on to execution when the code-generation call failed.
after_call_executes_after_error(q, text, err) ==
    IF q.pc = "codegen"
    THEN [q EXCEPT !.pc = "exec",
                   !.cleaned_code = Some(IF err # Null THEN <<>>
                                         ELSE clean_generated_code(text[1]))]
    ELSE IF err # Null THEN Respond(q, ErrorResponse(STATUS_BACKEND, err[1]))
    ELSE Respond(q, FullResponse(text[1], q.data_result, q.cleaned_code[1], q.exec_error))

\* A handler that sends the generated code to the synthesis call unexecuted.
after_call_skips_execution(q, text, err) ==
    IF err # Null THEN Respond(q, ErrorResponse(STATUS_BACKEND, err[1]))
    ELSE IF q.pc = "codegen"
    THEN [q EXCEPT !.pc = "answer", !.cleaned_code = Some(clean_generated_code(text[1])),
                   !.call = NewCall("synthesis"), !.calls = Append(@, "synthesis")]
    ELSE Respond(q, FullResponse(text[1], q.data_result, q.cleaned_code[1], q.exec_error))

\* The request after its query_model call returned (text, err): lines 234-238
\* after the first call, lines 305-316 after the second.
after_call(q, text, err) ==
    IF err # Null THEN Respond(q, ErrorResponse(STATUS_BACKEND, err[1]))
    ELSE IF q.pc = "codegen"
    THEN [q EXCEPT !.pc = "exec", !.cleaned_code = Some(clean_generated_code(text[1]))]
    ELSE Respond(q, FullResponse(text[1], q.data_result, q.cleaned_code[1], q.exec_error))

\* One HTTP attempt of the query_model call that request r is in, with
\* outcome o, up to the sleep of the pass or, when the call returns, to what
\* follows in ask_question.
http_attempt(r, o) ==
    /\ reqs[r].pc \in {"codegen", "answer"}
    /\ ~reqs[r].call.sleeping
    /\ o \in Outcomes(reqs[r].call.kind)
    /\ LET res == loop_body(reqs[r].call, o)
           q == [reqs[r] EXCEPT !.call = res.call, !.http = @ + 1]
       IN  reqs' = [reqs EXCEPT ![r] =
                IF res.returned THEN after_call(q, res.text, res.err) ELSE q]
    /\ UNCHANGED <<agri_src, rain_src, soil_src, API_KEY, pandas_version, module_name, WERKZEUG_RUN_MAIN,
                   phase, master_df, df_columns,
                   df_rain_annual, df_soil_annual, load_error>>

\* The sleep of request r ends (time.sleep of line 135 or 159 returns): the
\* rest of the pass, and what follows in ask_question when the call returns.
sleep_done(r) ==
    /\ reqs[r].pc \in {"codegen", "answer"}
    /\ reqs[r].call.sleeping
    /\ LET res == after_sleep(reqs[r].call)
           q == [reqs[r] EXCEPT !.call = res.call]
       IN  reqs' = [reqs EXCEPT ![r] =
                IF res.returned THEN after_call(q, res.text, res.err) ELSE q]
    /\ UNCHANGED <<agri_src, rain_src, soil_src, API_KEY, pandas_version, module_name, WERKZEUG_RUN_MAIN,
                   phase, master_df, df_columns, df_rain_annual, df_soil_annual, load_error>>

\* A context whose df is the master table itself.
local_context_shared == [df |-> master_df, alias |-> TRUE]

\* Line 246: the context of exec holds a copy of the master table, an object
\* of its own (alias is whether df is the master table itself).
local_context == [df |-> master_df, alias |-> FALSE]

\* Lines 241-303 up to the second query_model call: the generated code is
\* executed on the context, the result normalized or the error kept, and the
\* explanation or the synthesis call begun according to "if exec_error".
execute(r) ==
    /\ reqs[r].pc = "exec"
    /\ LET ctx == local_context
           run == exec_code(reqs[r].cleaned_code[1], ctx.df)
           exec_error == run.raised
           data_result == IF run.raised = Null THEN Some(normalize_result(run.result)) ELSE Null
           kind == IF exec_error # Null /\ exec_error[1] # "" THEN "explain" ELSE "synthesis"
       IN  /\ reqs' = [reqs EXCEPT ![r] =
                  [@ EXCEPT !.pc = "answer", !.df = run.df,
                            !.data_result = data_result, !.exec_error = exec_error,
                            !.call = NewCall(kind), !.calls = Append(@, kind)]]
           /\ master_df' = IF ctx.alias THEN run.df ELSE master_df
    /\ UNCHANGED <<agri_src, rain_src, soil_src, API_KEY, pandas_version, module_name, WERKZEUG_RUN_MAIN,
                   phase, df_columns,
                   df_rain_annual, df_soil_annual, load_error>>

\* A bad rainfall file: its only row has neither a date nor a year.
UnusableRain ==
    DailyFile("Avg_rainfall",
              << DailyRow("Avg_rainfall", Date(2011, 2, 30), NaN,
                          [State |-> Goa, District |-> Pune], Num(20)) >>)

\* The service over a few source files and every configuration of API_KEY.
\* (Every pandas from 1.3 on reads and joins these source files alike: their
\* Dates are of one form and their crop table keeps a row.)
Init ==
    /\ InitGlobals
    /\ pandas_version = <<2, 2>>
    /\ module_name \in {"__main__", "app"}
    /\ API_KEY \in ApiKeys
    /\ agri_src \in {ExampleCrop, Missing}
    /\ rain_src \in {ExampleRain, Missing, UnusableRain}
    /\ soil_src \in {ExampleSoil, Missing}

Next ==
    \/ main
    \/ app_run
    \/ served_by_import
    \/ \E r \in Requests, body \in Bodies : ask_question(r, body)
    \/ \E r \in Requests, o \in AllOutcomes : http_attempt(r, o)
    \/ \E r \in Requests : sleep_done(r)
    \/ \E r \in Requests : execute(r)

Spec == Init /\ [][Next]_vars

----------------------------------------------------------------------------
(* What the claims speak of, stated from the sources *)

AllSourcesExist == agri_src.exists /\ rain_src.exists /\ soil_src.exists

\* The daily rows as lines 53 and 63 leave them, their Date parsed.
RainRows == parse_dates(rain_src.rows, pandas_version)

SoilRows == parse_dates(soil_src.rows, pandas_version)

\* A daily row, its Date parsed, is usable when its Date or its Year resolves
\* to an integer year.
Usable(r) == IsNum(FilledYear(r))

UsableRows(rows) == SelectSeq(rows, Usable)

\* The crop rows (by position) whose Year is parseable.
ParseableCrop == {i \in 1..Len(agri_src.rows) : IsNum(agri_src.rows[i]["Year"])}

Key(y, state, district) == [Year |-> y, State |-> state, District |-> district]

\* The normalized key of a crop row as read.
CropKey(r) == Key(astype_int(r["Year"]), NormText(r["State Name"]), NormText(r["Dist Name"]))

\* The key of a row of an annual table or of the master table.
RowKey(r) == Key(r["Year"], r["State"], r["District"])

\* The usable daily rows whose year and normalized place are those of the key.
RowsOfKey(rows, key) ==
    SelectSeq(rows, LAMBDA r :
        /\ Usable(r)
        /\ Num(Agg_Year(r)) = key.Year
        /\ NormText(r.State) = key.State
        /\ NormText(r.District) = key.District)

Column(rows, col) == [i \in 1..Len(rows) |-> rows[i][col]]

MasterRowsOf(key) ==
    {j \in 1..Len(master_df.rows) : RowKey(master_df.rows[j]) = key}

CropKeysDistinct ==
    \A i, j \in ParseableCrop :
        i # j => CropKey(agri_src.rows[i]) # CropKey(agri_src.rows[j])

Perms(n) == {p \in [1..n -> 1..n] : \A i, j \in 1..n : i # j => p[i] # p[j]}

Permute(rows, p) == [i \in 1..Len(rows) |-> rows[p[i]]]

----------------------------------------------------------------------------
(* Claims about load_and_prepare_data *)

\* C1: when the crop source has one row per normalized (Year, State, District)
\* with a parseable Year, the master table has exactly one row for each such
\* triple, whatever the rainfall and soil sources hold.  Stated here for the
\* loads that build a master table; it fails there, a crop row being repeated
\* once per spelling of its place in a daily source.
C1_OneRowPerCropTriple ==
    (Loaded /\ master_df # None /\ CropKeysDistinct) =>
        \A i \in ParseableCrop :
            Cardinality(MasterRowsOf(CropKey(agri_src.rows[i]))) = 1

\* C2: with the three sources present, a crop row with a parseable Year whose
\* key has no rainfall record or no soil record is still in the master table,
\* with the aggregate it lacks null.
C2_UnmatchedCropRowKept ==
    (Loaded /\ AllSourcesExist) =>
        \A i \in ParseableCrop :
            LET key == CropKey(agri_src.rows[i])
                noRain == RowsOfKey(RainRows, key) = <<>>
                noSoil == RowsOfKey(SoilRows, key) = <<>>
            IN  (noRain \/ noSoil) =>
                    /\ master_df # None
                    /\ \E j \in MasterRowsOf(key) :
                          /\ noRain => master_df.rows[j][RainCol] = NaN
                          /\ noSoil => master_df.rows[j][SoilCol] = MeanNaN

\* C3: a rainfall or soil row of which neither the Date nor the Year resolves
\* to an integer year is dropped before aggregation: the other rows are
\* aggregated and the master table is built.  (Crop sources with a rice
\* column, so that the sample print of line 94 is not what fails.)
C3_UnusableDailyRowDropped ==
    (/\ Loaded
     /\ AllSourcesExist
     /\ RiceCol \in Range(agri_src.header)
     /\ \/ AggYearRaises(RainRows)
        \/ AggYearRaises(SoilRows)) =>
        /\ master_df # None
        /\ df_rain_annual = standardize_keys(rain_annual(UsableRows(RainRows)))
        /\ df_soil_annual = standardize_keys(soil_annual(UsableRows(SoilRows)))

\* C4: every row of the annual rainfall table carries the sum of the daily
\* amounts of all rainfall rows of its year whose State and District normalize
\* to its State and District, and every row of the annual soil table the mean
\* of all such soil readings.
C4_AnnualValuePerNormalizedKey ==
    (Loaded /\ df_rain_annual # None /\ df_soil_annual # None) =>
        /\ \A i \in 1..Len(df_rain_annual.rows) :
              LET a == df_rain_annual.rows[i]
              IN  a[RainCol] =
                      groupby_sum(Column(RowsOfKey(RainRows, RowKey(a)), "Avg_rainfall"))
        /\ \A i \in 1..Len(df_soil_annual.rows) :
              LET a == df_soil_annual.rows[i]
              IN  a[SoilCol] =
                      groupby_mean(Column(RowsOfKey(SoilRows, RowKey(a)), "Avg_smlvl_at15cm"))

\* The example of C4: the three rainfall readings 10.5, 20.0, 5.5 written
\* "pune ", " Maharashtra" give 36.0 for (2010, Maharashtra, Pune), and the
\* soil readings 30.0, 40.0 give the mean 35.0.
C4_Example ==
    (Loaded /\ rain_src = ExampleRain /\ soil_src = ExampleSoil) =>
        /\ Len(df_rain_annual.rows) = 1
        /\ RowKey(df_rain_annual.rows[1]) = Key(Num(2010), Maharashtra, Pune)
        /\ df_rain_annual.rows[1][RainCol] = Num(36)
        /\ df_soil_annual.rows[1][SoilCol] = [k |-> "num", n |-> 35, d |-> 1]

\* C5: permuting the rows of the daily rainfall source changes neither the
\* annual rainfall table nor the master table nor anything else the load
\* leaves: the result of the load of every permutation of the rainfall rows is
\* the result of the load that ran.
C5_RainRowOrderIrrelevant ==
    Loaded =>
        \A p \in Perms(Len(rain_src.rows)) :
            LET res == load_result(agri_src, [rain_src EXCEPT !.rows = Permute(@, p)],
                                   soil_src, <<>>, pandas_version)
            IN  /\ res.rain_annual = df_rain_annual
                /\ res.master = master_df
                /\ res.columns = df_columns
                /\ res.error = load_error

\* C6: the key normalization of lines 70-82 is idempotent on each of the three
\* tables: normalizing the normalized table gives the identical table.  (Crop
\* tables that keep at least one row.)
C6_NormalizationIdempotent ==
    (/\ Loaded
     /\ AllSourcesExist
     /\ ~AggYearRaises(RainRows)
     /\ ~AggYearRaises(SoilRows)
     /\ ParseableCrop # {}) =>
        LET twice(t) == standardize_keys(standardize_keys(t)) = standardize_keys(t)
        IN  /\ twice(read_agri(agri_src))
            /\ twice(rain_annual(RainRows))
            /\ twice(soil_annual(SoilRows))


----------------------------------------------------------------------------
(* Claims about ask_question and query_model *)

KeyUnset == API_KEY = PLACEHOLDER_KEY \/ API_KEY = ""

Arrived(r) == reqs[r].pc # "idle"

RejectedWith(r, status, message) ==
    /\ reqs[r].pc = "done"
    /\ reqs[r].response = Some(ErrorResponse(status, message))
    /\ reqs[r].http = 0
    /\ reqs[r].calls = <<>>

\* C7: when a source file is missing, the load makes no merge and leaves the
\* master table unavailable, and from then on the service answers: every
\* request that arrives is rejected with the data-unavailable error.
C7_MissingSourceDataError ==
    (Loaded /\ ~AllSourcesExist) =>
        /\ master_df = None
        /\ df_columns = <<>>
        /\ phase = "serving"
        /\ \A r \in Requests : Arrived(r) => RejectedWith(r, STATUS_DATA, ERR_DATA)

\* C8: a request that arrives while API_KEY is empty or the placeholder is
\* rejected, and no HTTP attempt and no query_model call is made for it,
\* whatever its body and whatever the master table.
C8_NoBackendCallWithoutKey ==
    KeyUnset => \A r \in Requests : Arrived(r) => RejectedWith(r, 500, ERR_CONFIG)

\* C8 witness: the key unset, the master table built, and a request with a
\* question rejected.
C8_Witness ==
    /\ KeyUnset
    /\ master_df # None
    /\ \E r \in Requests : reqs[r].body = "question" /\ reqs[r].pc = "done"

\* The request executed its generated code and the code raised.
ExecRaised(r) == reqs[r].exec_error # Null

\* C9: a request whose generated query raised makes the explanation call as
\* its second backend call and ends with a 200 response with a non-null
\* execution error and a non-null answer, never with a request-level error.
C9_ExecErrorExplained ==
    \A r \in Requests :
        ExecRaised(r) =>
            /\ reqs[r].calls = <<"codegen", "explain">>
            /\ reqs[r].pc = "done" =>
                  LET resp == reqs[r].response[1]
                  IN  /\ resp.status = 200
                      /\ resp.body.error # Null
                      /\ resp.body.answer # Null

\* C10: in query_model an attempt that ends in a bad status outside
\* 500/502/503/504 (400, 403, 404) ends the call: it returns an error after
\* that attempt, without a wait and without a further attempt.
C10_ClientErrorFailsFast ==
    \A r \in Requests :
        (reqs[r].call.status >= 400 /\ reqs[r].call.status \notin RetryStatuses) =>
            /\ reqs[r].pc = "done"
            /\ reqs[r].response[1].status = 500
            /\ Len(reqs[r].call.waits) = reqs[r].call.attempt - 1

\* The query_model call of request r is in progress.
InCall(r) == reqs[r].pc \in {"codegen", "answer"}

\* Every attempt of the call ended in a branch that the loop retries.
AllRetried(c) == \A i \in 1..Len(c.hist) : c.hist[i] \in {"retry_status", "request_exc"}

\* C11: a query_model call makes at most 3 HTTP attempts: after the third it
\* is in no state from which an attempt is made, it has returned or is in the
\* sleep that precedes the return; when all 3 attempts failed with a retried
\* error (a server status or an exception, in any mix) it returns a
\* backend-unavailable error and no text: the request ends with that error
\* and nothing else.
C11_AtMostThreeAttempts ==
    \A r \in Requests :
        LET c == reqs[r].call
        IN  /\ c.attempt <= 3
            /\ Len(c.hist) = c.attempt
            /\ (InCall(r) /\ ~c.sleeping) => c.attempt < 3
            /\ c.sleeping => InCall(r)
            /\ (c.attempt = 3 /\ AllRetried(c) /\ ~c.sleeping) =>
                  /\ reqs[r].pc = "done"
                  /\ reqs[r].response[1].status = 500
                  /\ reqs[r].response[1].body =
                        [error |-> Some(IF c.last = "retry_status"
                                        THEN ERR_UNAVAILABLE ELSE ERR_CONNECT)]

\* C11 witness: a code-generation call that met two server statuses and then a
\* transport exception returned the error after its third attempt.
C11_Witness ==
    \E r \in Requests :
        /\ reqs[r].calls = <<"codegen">>
        /\ reqs[r].call.hist = <<"retry_status", "retry_status", "request_exc">>
        /\ reqs[r].call.status = 0
        /\ reqs[r].http = 3
        /\ reqs[r].pc = "done"
        /\ reqs[r].response[1].body.error = Some(ERR_CONNECT)

\* The request has executed its generated code.
Executed(r) == Len(reqs[r].calls) = 2

\* C12: whatever the interleaving of the requests, no step after start-up
\* changes the master table or the column list, and every request that
\* executed its query has the table, the result and the error that the query
\* gives on the master table alone, whatever the other requests did to their df.
C12_RequestsIsolated ==
    /\ [][phase = "serving" => (master_df' = master_df /\ df_columns' = df_columns)]_vars
    /\ [](\A r \in Requests :
            Executed(r) =>
                LET alone == exec_code(reqs[r].cleaned_code[1], master_df)
                IN  /\ reqs[r].df = alone.df
                    /\ reqs[r].exec_error = alone.raised
                    /\ reqs[r].data_result =
                          IF alone.raised = Null
                          THEN Some(normalize_result(alone.result)) ELSE Null)

\* C12 witness: one request emptied its df, another counted the rows of its
\* own and found the row of the master table.
C12_Witness ==
    /\ master_df # None
    /\ Len(master_df.rows) = 1
    /\ \E r, q \in Requests :
          /\ Executed(r) /\ reqs[r].cleaned_code = Some(Q_wipe) /\ reqs[r].df.rows = <<>>
          /\ Executed(q) /\ reqs[q].cleaned_code = Some(Q_count)
          /\ reqs[q].data_result = Some([t |-> "int", v |-> 1, s |-> ""])

\* The request ended with a request-level error with this text.
FailedWith(r, message) ==
    /\ reqs[r].pc = "done"
    /\ reqs[r].response[1].body = [error |-> Some(message)]

\* C13: the status of a request-level rejection tells its cause: a request
\* rejected for unset credentials carries a status that no rejection for an
\* unavailable master table, a malformed request or a backend failure carries,
\* and likewise one rejected for an unavailable master table.
C13_DistinctErrorCodes ==
    \A r \in Requests :
        /\ FailedWith(r, ERR_CONFIG) =>
              reqs[r].response[1].status \notin {STATUS_DATA, STATUS_BAD_REQUEST, STATUS_BACKEND}
        /\ FailedWith(r, ERR_DATA) =>
              reqs[r].response[1].status \notin {STATUS_CONFIG, STATUS_BAD_REQUEST, STATUS_BACKEND}

\* The text p occurs in the text s.
Contains(s, p) == \E i \in 1..(Len(s) - Len(p) + 1) : SubSeq(s, i, i + Len(p) - 1) = p

\* The programs that the generated texts hold, bare or between fences.
Programs == {Q_count, Q_wipe, Q_keyerror, Q_assert}

\* C14: the code that clean_generated_code returned for a request, which is
\* what is executed, holds no fence marker and is the program that the
\* generated text held, whether the text came bare, between tagged fences or
\* between fences without a language tag.
C14_FencesStripped ==
    \A r \in Requests :
        reqs[r].cleaned_code # Null =>
            /\ ~Contains(reqs[r].cleaned_code[1], Fence)
            /\ reqs[r].cleaned_code[1] \in Programs

\* C15: the second backend call of a request is the explanation call when
\* the execution of the generated query raised, whatever the message of the
\* error, and the synthesis call when it did not; a request makes no other
\* second call.
C15_SecondCallRouting ==
    \A r \in Requests :
        Executed(r) =>
            /\ ExecRaised(r) => reqs[r].calls[2] = "explain"
            /\ ~ExecRaised(r) => reqs[r].calls[2] = "synthesis"

\* C16: in every query_model call the k-th wait lasts 2^(k-1) seconds,
\* whether the failures before it were server statuses, exceptions or both,
\* and every call starts again at 1: the next wait of a call that waited n
\* times would last 2^n.
C16_WaitsDouble ==
    \A r \in Requests :
        LET c == reqs[r].call
        IN  /\ \A k \in 1..Len(c.waits) : c.waits[k] = 2 ^ (k - 1)
            /\ c.kind # "none" =>
                  c.base_delay = 2 ^ (IF c.sleeping THEN Len(c.waits) - 1 ELSE Len(c.waits))

\* C16 witness: the second call of a request, made after a first call that had
\* waited twice, waited 1 and then 2 after a server status and an exception.
C16_Witness ==
    \E r \in Requests :
        /\ Executed(r)
        /\ reqs[r].http = 5
        /\ reqs[r].call.attempt = 2
        /\ reqs[r].call.hist = <<"retry_status", "request_exc">>
        /\ reqs[r].call.waits = <<1, 2>>

----------------------------------------------------------------------------
(* Further claims about load_and_prepare_data *)

\* The daily rows of the key carry no value of the measure.
NoValue(rows, key, col) ==
    \A i \in 1..Len(RowsOfKey(rows, key)) : ~IsNum(RowsOfKey(rows, key)[i][col])

\* C17: for a key whose daily rows carry no valid value of the measure, the
\* annual table of that source has no row with the value 0, and the master
\* table shows the aggregate of its crop rows as null, not as 0.
C17_NoFabricatedZero ==
    (Loaded /\ df_rain_annual # None /\ df_soil_annual # None) =>
        /\ \A i \in 1..Len(df_rain_annual.rows) :
              LET a == df_rain_annual.rows[i]
              IN  NoValue(RainRows, RowKey(a), "Avg_rainfall") => a[RainCol] # Num(0)
        /\ \A i \in 1..Len(df_soil_annual.rows) :
              LET a == df_soil_annual.rows[i]
              IN  NoValue(SoilRows, RowKey(a), "Avg_smlvl_at15cm") =>
                      a[SoilCol] # Ratio(0, 1)
        /\ master_df # None =>
              \A j \in 1..Len(master_df.rows) :
                  LET m == master_df.rows[j]
                  IN  /\ NoValue(RainRows, RowKey(m), "Avg_rainfall") => m[RainCol] = NaN
                      /\ NoValue(SoilRows, RowKey(m), "Avg_smlvl_at15cm") =>
                            m[SoilCol] = MeanNaN

----------------------------------------------------------------------------
(* Further claims about ask_question and query_model *)

\* The error that query_model returns when its last attempt ended in the
\* branch (lines 168, 162, 154, 165).
CallError(c) ==
    IF c.last = "retry_status" THEN ERR_UNAVAILABLE
    ELSE IF c.last = "request_exc" THEN ERR_CONNECT
    ELSE IF c.last = "format" THEN ERR_FORMAT
    ELSE ERR_UNEXPECTED

\* C18: when the code-generation call has returned an error, the request has
\* ended with a request-level failure whose error is that error, and nothing
\* was executed and no second backend call was made for it.
C18_CodegenErrorPropagated ==
    \A r \in Requests :
        (/\ reqs[r].calls = <<"codegen">>
         /\ ~InCall(r)
         /\ reqs[r].call.last # "text") =>
            /\ reqs[r].pc = "done"
            /\ reqs[r].response = Some(ErrorResponse(STATUS_BACKEND, CallError(reqs[r].call)))
            /\ reqs[r].http = reqs[r].call.attempt
            /\ reqs[r].cleaned_code = Null
            /\ reqs[r].df = None
            /\ reqs[r].data_result = Null
            /\ reqs[r].exec_error = Null

\* C18 witness: a code-generation call answered without candidates on its
\* second attempt ended the request with the format error.
C18_Witness ==
    \E r \in Requests :
        /\ reqs[r].pc = "done"
        /\ reqs[r].calls = <<"codegen">>
        /\ reqs[r].call.hist = <<"retry_status", "format">>
        /\ reqs[r].response[1].body.error = Some(ERR_FORMAT)

\* C19: an attempt of query_model that received a 200 response without the
\* expected text ends the call: the call returned an error after that attempt,
\* without a wait after it and without a further attempt.
C19_BadShapeTerminal ==
    \A r \in Requests :
        (reqs[r].call.status = 200 /\ reqs[r].call.last # "text") =>
            /\ reqs[r].pc = "done"
            /\ reqs[r].response[1].status = STATUS_BACKEND
            /\ Len(reqs[r].call.waits) = reqs[r].call.attempt - 1

\* The steps of a request, in the order of ask_question.
Sequence ==
    { <<"idle", "codegen">>, <<"idle", "done">>, <<"codegen", "exec">>,
      <<"codegen", "done">>, <<"exec", "answer">>, <<"answer", "done">> }

\* Where request r stands agrees with what it has done so far.
InOrder(r) ==
    LET q == reqs[r]
    IN  /\ q.calls \in { <<>>, <<"codegen">>, <<"codegen", "explain">>,
                         <<"codegen", "synthesis">> }
        /\ q.http <= 2 * retries
        /\ q.pc = "idle" => q.calls = <<>> /\ q.response = Null
        /\ q.pc = "codegen" =>
              q.calls = <<"codegen">> /\ q.call.kind = "codegen"
              /\ q.cleaned_code = Null /\ q.df = None
        /\ q.pc = "exec" =>
              q.calls = <<"codegen">> /\ q.call.last = "text"
              /\ q.cleaned_code # Null /\ q.df = None
        /\ q.pc = "answer" =>
              Len(q.calls) = 2 /\ q.call.kind = q.calls[2]
              /\ q.cleaned_code # Null /\ q.df # None
        /\ q.pc = "done" =>
              /\ q.response # Null
              /\ q.response[1].status = 200 =>
                    Len(q.calls) = 2 /\ q.call.last = "text" /\ q.df # None

\* C20: a request goes through precondition check, code-generation call,
\* sanitization, execution, one of synthesis and explanation, and response in
\* that order; it makes at most two backend calls, begins a call only when it
\* has none in progress, and executes only code that its code-generation call
\* returned.
C20_StrictlySequential ==
    /\ [](\A r \in Requests : InOrder(r))
    /\ [][\A r \in Requests :
            /\ reqs'[r].pc # reqs[r].pc => <<reqs[r].pc, reqs'[r].pc>> \in Sequence
            /\ Len(reqs'[r].calls) > Len(reqs[r].calls) =>
                  ~InCall(r) /\ Len(reqs'[r].calls) = Len(reqs[r].calls) + 1]_vars

\* C20 witness: a request has gone through all steps to a 200 response while
\* the other request is in a backend call.
C20_Witness ==
    \E r, q \in Requests :
        /\ reqs[r].pc = "done"
        /\ reqs[r].response[1].status = 200
        /\ reqs[r].calls = <<"codegen", "synthesis">>
        /\ reqs[r].http = 2
        /\ InCall(q)

----------------------------------------------------------------------------
(* The wait after the last attempt *)

\* The query_model call of request r has returned.
Returned(r) == reqs[r].call.kind # "none" /\ ~InCall(r)

\* C21: every wait of a query_model call is followed by another HTTP attempt:
\* a call never sleeps after its third attempt, a call that has returned has
\* waited fewer times than it attempted, and a call whose 3 attempts all failed
\* with a retried error, server statuses or exceptions, has waited exactly
\* twice, 1 and then 2.
C21_NoWaitAfterFinalAttempt ==
    \A r \in Requests :
        LET c == reqs[r].call
        IN  /\ c.sleeping => c.attempt < retries
            /\ Returned(r) => Len(c.waits) < c.attempt
            /\ (c.attempt = retries /\ AllRetried(c)) => c.waits = <<1, 2>>

----------------------------------------------------------------------------
(* The master table after the joins *)

\* The load got as far as the joins of lines 86-87: the three sources were
\* read and the two daily sources aggregated.
JoinsReached == AllSourcesExist /\ df_rain_annual # None /\ df_soil_annual # None

\* C22: when the three sources load and both left joins complete, the load
\* ends with the master table available and with the recorded column list
\* equal to the columns of the master table, whatever metric columns the crop
\* source carries; the master table is unavailable only when reading,
\* aggregating, normalizing or merging failed.
C22_MasterAvailableAfterJoins ==
    /\ (Loaded /\ JoinsReached) =>
          /\ master_df # None
          /\ df_columns = master_df.cols
    /\ (Loaded /\ master_df = None) => ~JoinsReached

============================================================================
